---- MODULE Spec2Model ----
(***************************************************************************)
(* The esports CLI: a snapshot file per endpoint, a freshness policy       *)
(* (fetchIfNeeded), the remote fetch (fetchEsportsData) and the recursive  *)
(* menu session (mainMenu / matchListMenu).                                *)
(*                                                                         *)
(* The repository holds two entry points: src/main.ts (the reduced menu,   *)
(* the snapshot file is the bare payload) and the program listed in        *)
(* src/README.md from line 53 on (the richer menu, the snapshot file is an *)
(* envelope {lastFetched, data}, fetchIfNeeded exists).  The variable      *)
(* `variant` says which of the two is running.                             *)
(*                                                                         *)
(* Modelling assumptions: the wall clock never runs backwards; the file    *)
(* system is writable (mkdir / writeTextFile do not fail); nothing but the *)
(* program touches the snapshot file while it runs.                        *)
(***************************************************************************)
EXTENDS Integers, Sequences, FiniteSets, TLC

VARIABLES
    variant,    \* "main.ts" | "README.md": the entry point that runs
    hasToken,   \* API_TOKEN is set in .env
    pc,         \* "boot" | "mainMenu" | "action" | "list" | "done" (the session);
                \* "api" | "written" | "read" (the functions called directly)
    status,     \* "running" | "exit0" | "exit1" | "crash"
    file,       \* the snapshot file: [exists, text]
    now,        \* the wall clock, in milliseconds
    held,       \* what the running mainMenu holds from fetchEsportsData
    listed,     \* the sequence matchListMenu was called with
    out,        \* the messages the last step printed
    net,        \* the network calls the last step made
    ret,        \* what the last fetch call returned: [kind, val]
    writes,     \* the timestamps recorded by the successful snapshot writes
    call,       \* the fetch call the last step made, with the state it began in
    shown,      \* the id of the match the last step displayed details of (0: none)
    chosen      \* the menu option the last step handled, with what its filter
                \* was given and what it returned

vars == <<variant, hasToken, pc, status, file, now, held, listed, out, net, ret,
          writes, call, shown, chosen>>

----------------------------------------------------------------------------
(* Bounds of the model *)

\* the clock stops advancing here (ms): two cooldowns and a little more
MaxNow == 1200002

\* the longest match sequence the filters are called on directly
MaxLen == 3

(* Program constants *)

\* (new Date().getTime() - ...) / 60000
MsPerMinute == 60000
\* const cooldownMinutes = 10
CooldownMinutes == 10

----------------------------------------------------------------------------
(* Strings are sequences of characters, so that toLowerCase is computed. *)

Lower(ch) ==
    CASE ch = "C" -> "c"
      [] ch = "S" -> "s"
      [] ch = "L" -> "l"
      [] OTHER -> ch

toLowerCase(s) == [i \in 1..Len(s) |-> Lower(s[i])]

\* String.prototype.startsWith in place of includes
startsWith(s, q) == Len(q) <= Len(s) /\ SubSeq(s, 1, Len(q)) = q

\* String.prototype.includes: q occurs in s as a contiguous substring
includes(s, q) ==
    \E i \in 0..(Len(s) - Len(q)) : SubSeq(s, i + 1, i + Len(q)) = q

(* Match objects as the API returns them (the fields the program reads). *)
M1 == [id |-> 1, name |-> <<"S", "a">>, status |-> "live",
       game |-> <<"C", "S">>, league |-> <<"L", "c">>]
M2 == [id |-> 2, name |-> <<"s", "b">>, status |-> "finished",
       game |-> <<"c", "s">>, league |-> <<"l">>]
M3 == [id |-> 3, name |-> <<"b">>, status |-> "Live",
       game |-> <<"c", "s", "2">>, league |-> <<"a", "L", "C">>]
NoMatch == [id |-> 0, name |-> <<>>, status |-> "", game |-> <<>>, league |-> <<>>]

MatchPool == {M1, M2, M3}

\* the JSON arrays the API may answer with
Payloads == {<<>>, <<M3>>, <<M1, M2>>, <<M2, M3, M1>>}

\* what the user may type at an Input prompt
Queries == {<<>>, <<"c", "s">>, <<"C", "S">>, <<"l">>, <<"l", "C">>, <<"s">>, <<"x">>}

----------------------------------------------------------------------------
(* Dates.  An ISO string is modelled by its two parts <<minutes, ms within   *)
(* the minute>>; NoIso is `undefined` (a property that is not there).        *)

NoIso == <<>>

\* Date.prototype.toISOString of the instant t (ms)
toISOString(t) == <<t \div MsPerMinute, t % MsPerMinute>>

\* new Date(s).getTime() is NaN for undefined
isNaNDate(iso) == Len(iso) # 2

\* new Date(s).getTime() of a well-formed ISO string
getTime(iso) == iso[1] * MsPerMinute + iso[2]

----------------------------------------------------------------------------
(* JavaScript values the program handles: an array of matches, or an object *)
(* with the properties lastFetched and data (either may be undefined).      *)

Arr(p) == [type |-> "array", items |-> p, lastFetched |-> NoIso,
           hasData |-> FALSE, data |-> <<>>]

Obj(iso, hasData, d) == [type |-> "object", items |-> <<>>, lastFetched |-> iso,
                         hasData |-> hasData, data |-> d]

\* { lastFetched, data }
Envelope(iso, d) == Obj(iso, TRUE, d)

NoVal == Obj(NoIso, FALSE, <<>>)

(* JSON text is a sequence of tokens. *)
Tok(k, key, iso, m) == [k |-> k, key |-> key, iso |-> iso, m |-> m]
LBrace == Tok("{", "", NoIso, NoMatch)
RBrace == Tok("}", "", NoIso, NoMatch)
LBrack == Tok("[", "", NoIso, NoMatch)
RBrack == Tok("]", "", NoIso, NoMatch)
KeyTok(key) == Tok("key", key, NoIso, NoMatch)
StrTok(iso) == Tok("string", "", iso, NoMatch)
MatchTok(m) == Tok("match", "", NoIso, m)

ArrayText(p) == <<LBrack>> \o [i \in 1..Len(p) |-> MatchTok(p[i])] \o <<RBrack>>

\* JSON.stringify(value, null, 2): an undefined property is left out
JSONstringify(v) ==
    IF v.type = "array" THEN ArrayText(v.items)
    ELSE <<LBrace>>
         \o (IF v.lastFetched # NoIso
             THEN <<KeyTok("lastFetched"), StrTok(v.lastFetched)>> ELSE <<>>)
         \o (IF v.hasData THEN <<KeyTok("data")>> \o ArrayText(v.data) ELSE <<>>)
         \o <<RBrace>>

\* the position of the first "]" of toks, 0 when there is none
FirstRBrack(toks) ==
    IF \E i \in 1..Len(toks) : toks[i] = RBrack
    THEN CHOOSE i \in 1..Len(toks) :
            toks[i] = RBrack /\ \A j \in 1..(i - 1) : toks[j] # RBrack
    ELSE 0

\* toks is "[" match* "]"
IsArrayText(toks) ==
    /\ Len(toks) >= 2
    /\ toks[1] = LBrack
    /\ toks[Len(toks)] = RBrack
    /\ \A i \in 2..(Len(toks) - 1) : toks[i].k = "match"

ArrayItems(toks) == [i \in 1..(Len(toks) - 2) |-> toks[i + 1].m]

\* the members of an object, read left to right into acc; ok is FALSE on a
\* syntax error
RECURSIVE ParseMembers(_, _)
ParseMembers(toks, acc) ==
    IF toks = <<>> THEN [ok |-> TRUE, val |-> acc]
    ELSE IF Len(toks) < 2 \/ toks[1].k # "key" THEN [ok |-> FALSE, val |-> NoVal]
    ELSE IF toks[2].k = "string"
    THEN ParseMembers(SubSeq(toks, 3, Len(toks)),
                      IF toks[1].key = "lastFetched"
                      THEN [acc EXCEPT !.lastFetched = toks[2].iso] ELSE acc)
    ELSE LET rest == SubSeq(toks, 2, Len(toks))
             e == FirstRBrack(rest)
         IN  IF e = 0 \/ ~IsArrayText(SubSeq(rest, 1, e))
             THEN [ok |-> FALSE, val |-> NoVal]
             ELSE ParseMembers(SubSeq(rest, e + 1, Len(rest)),
                               IF toks[1].key = "data"
                               THEN [acc EXCEPT !.hasData = TRUE,
                                                !.data = ArrayItems(SubSeq(rest, 1, e))]
                               ELSE acc)

\* JSON.parse(text): [ok, val]; ok = FALSE is the SyntaxError it throws
JSONparse(toks) ==
    IF IsArrayText(toks) THEN [ok |-> TRUE, val |-> Arr(ArrayItems(toks))]
    ELSE IF Len(toks) >= 2 /\ toks[1] = LBrace /\ toks[Len(toks)] = RBrace
    THEN ParseMembers(SubSeq(toks, 2, Len(toks) - 1), NoVal)
    ELSE [ok |-> FALSE, val |-> NoVal]

\* const { lastFetched, data } = JSON.parse(snapshot): of an array both are
\* undefined
Destructure(v) ==
    IF v.type = "object" THEN v ELSE NoVal

----------------------------------------------------------------------------
(* The snapshot file *)

NoFile == [exists |-> FALSE, text |-> <<>>]
FileOf(text) == [exists |-> TRUE, text |-> text]

\* saveSnapshot(data, filename) at clock reading t: the text written
saveSnapshotReadme(data, t) == JSONstringify(Envelope(toISOString(t), data))

saveSnapshotMain(data, t) == JSONstringify(Arr(data))

saveSnapshot(v, data, t) ==
    IF v = "README.md" THEN saveSnapshotReadme(data, t) ELSE saveSnapshotMain(data, t)

----------------------------------------------------------------------------
(* The Remote Data Source: what one fetch() may come back with. *)

Responses ==
    {[kind |-> "ok", data |-> p] : p \in Payloads}
    \cup {[kind |-> "http_error", data |-> <<>>],      \* !response.ok
          [kind |-> "network_error", data |-> <<>>],   \* fetch() rejects
          [kind |-> "bad_body", data |-> <<>>]}        \* response.json() rejects

(* What a call comes back with: a value, null, or a thrown exception. *)
Value(v) == [kind |-> "value", val |-> v]
Null == [kind |-> "null", val |-> NoVal]
Throw == [kind |-> "throw", val |-> NoVal]
NoRet == [kind |-> "none", val |-> NoVal]

\* the result of a call: the file after it, what it returned, the network
\* calls it made, what it printed, whether it wrote the snapshot file
Result(f, r, n, o, w) == [file |-> f, ret |-> r, net |-> n, out |-> o, wrote |-> w]

\* what fetchEsportsData returns from an existing snapshot
FromSnapshot(v, parsed) ==
    IF v = "README.md" THEN Destructure(parsed) ELSE parsed

\* what fetchEsportsData returns after a successful fetch; tRet is the clock
\* at the return statement
Fetched(v, data, tRet) ==
    IF v = "README.md" THEN Envelope(toISOString(tRet), data) ELSE Arr(data)

\* fetchEsportsData with useSnapshot ignored: the remote is always asked
fetchEsportsDataIgnoresSnapshot(v, f, useSnapshot, resp, tSave, tRet) ==
    CASE resp.kind \in {"network_error", "bad_body"} -> Result(f, Throw, 1, <<>>, FALSE)
      [] resp.kind = "http_error" -> Result(f, Null, 1, <<>>, FALSE)
      [] OTHER -> Result(FileOf(saveSnapshot(v, resp.data, tSave)),
                         Value(Fetched(v, resp.data, tRet)), 1, <<>>, TRUE)

\* fetchEsportsData with the snapshot saved before response.ok is looked at
fetchEsportsDataSavesFirst(v, f, useSnapshot, resp, tSave, tRet) ==
    IF useSnapshot /\ f.exists
    THEN LET parsed == JSONparse(f.text)
         IN  IF parsed.ok
             THEN Result(f, Value(FromSnapshot(v, parsed.val)), 0, <<>>, FALSE)
             ELSE Result(f, Throw, 0, <<>>, FALSE)
    ELSE IF resp.kind \in {"network_error", "bad_body"}
    THEN Result(f, Throw, 1, <<>>, FALSE)
    ELSE Result(FileOf(saveSnapshot(v, resp.data, tSave)),
                IF resp.kind = "ok" THEN Value(Fetched(v, resp.data, tRet)) ELSE Null,
                1, <<>>, TRUE)

\* fetchEsportsData(endpoint, useSnapshot) on file f, the remote answering
\* resp, the clock reading tSave in saveSnapshot and tRet at the return
fetchEsportsData(v, f, useSnapshot, resp, tSave, tRet) ==
    IF useSnapshot /\ f.exists
    THEN LET parsed == JSONparse(f.text)
             o == IF v = "README.md" THEN <<>> ELSE <<"Using snapshot">>
         IN  IF parsed.ok
             THEN Result(f, Value(FromSnapshot(v, parsed.val)), 0, o, FALSE)
             ELSE Result(f, Throw, 0, o, FALSE)
    ELSE CASE resp.kind = "network_error" ->
                Result(f, Throw, 1, <<"Fetching data from API...">>, FALSE)
           [] resp.kind = "http_error" ->
                Result(f, Null, 1, <<"Fetching data from API...", "Error: status">>, FALSE)
           [] resp.kind = "bad_body" ->
                Result(f, Throw, 1, <<"Fetching data from API...">>, FALSE)
           [] OTHER ->
                Result(FileOf(saveSnapshot(v, resp.data, tSave)),
                       Value(Fetched(v, resp.data, tRet)), 1,
                       <<"Fetching data from API...", "Snapshot saved">>, TRUE)

\* IsRecent with the elapsed milliseconds not converted to minutes
IsRecentNoUnits(lastFetched, cooldownMinutes, tNow) ==
    /\ ~isNaNDate(lastFetched)
    /\ tNow - getTime(lastFetched) < cooldownMinutes

\* IsRecent with > for <
IsRecentInverted(lastFetched, cooldownMinutes, tNow) ==
    /\ ~isNaNDate(lastFetched)
    /\ tNow - getTime(lastFetched) > cooldownMinutes * MsPerMinute

\* IsRecent with <= for <
IsRecentInclusive(lastFetched, cooldownMinutes, tNow) ==
    /\ ~isNaNDate(lastFetched)
    /\ tNow - getTime(lastFetched) <= cooldownMinutes * MsPerMinute

\* elapsedMinutes < cooldownMinutes, at clock reading tNow; a NaN elapsed
\* time compares false
IsRecent(lastFetched, cooldownMinutes, tNow) ==
    /\ ~isNaNDate(lastFetched)
    /\ tNow - getTime(lastFetched) < cooldownMinutes * MsPerMinute

\* fetchIfNeeded(endpoint, cooldownMinutes) (README.md only)
fetchIfNeeded(f, cooldownMinutes, resp, tNow, tSave, tRet) ==
    IF f.exists
    THEN LET parsed == JSONparse(f.text)
             snap == Destructure(parsed.val)
         IN  IF ~parsed.ok THEN Result(f, Throw, 0, <<>>, FALSE)
             ELSE IF IsRecent(snap.lastFetched, cooldownMinutes, tNow)
             THEN Result(f, Value(snap), 0, <<"Data is recent">>, FALSE)
             ELSE fetchEsportsData("README.md", f, FALSE, resp, tSave, tRet)
    ELSE fetchEsportsData("README.md", f, FALSE, resp, tSave, tRet)

----------------------------------------------------------------------------
(* The Match Filter Pipeline *)

(* Array.prototype.filter is SelectSeq: the elements that satisfy the test, *)
(* in their order.                                                         *)

\* filterLiveMatches that compares the status ignoring case
filterLiveMatchesAnyCase(matches) ==
    LET keep(m) == m.status \in {"live", "Live", "LIVE"}
    IN  SelectSeq(matches, keep)

\* filterByGame with String.prototype.includes in place of ===
filterByGameSubstring(matches, game) ==
    LET keep(m) == includes(toLowerCase(m.game), toLowerCase(game))
    IN  SelectSeq(matches, keep)

filterByGame(matches, game) ==
    LET keep(m) == toLowerCase(m.game) = toLowerCase(game)
    IN  SelectSeq(matches, keep)

filterByLeague(matches, league) ==
    LET keep(m) == includes(toLowerCase(m.league), toLowerCase(league))
    IN  SelectSeq(matches, keep)

filterLiveMatches(matches) ==
    LET keep(m) == m.status = "live"
    IN  SelectSeq(matches, keep)

searchMatches(matches, query) ==
    LET keep(m) == includes(toLowerCase(m.name), toLowerCase(query))
    IN  SelectSeq(matches, keep)

----------------------------------------------------------------------------
(* The session *)

\* how long an awaited call (the fetch, the file write) may take, in ms
Delays == {0, 1}

\* how long the user may wait at a prompt, in ms
TickSteps == {CooldownMinutes * MsPerMinute - 1, CooldownMinutes * MsPerMinute}

\* snapshot files a run may find: none, one an earlier run of either entry
\* point wrote at time 0, a truncated one
InitFiles ==
    {NoFile, FileOf(<<LBrace>>)}
    \cup {FileOf(saveSnapshotReadme(p, 0)) : p \in {<<>>, <<M1, M2>>}}
    \cup {FileOf(saveSnapshotMain(p, 0)) : p \in {<<>>, <<M3>>}}

\* the timestamp recorded in a file's text (NoIso: none)
TimestampOf(f) == Destructure(JSONparse(f.text).val).lastFetched

\* the record of the successful writes
Logged(w, R) == IF R.wrote THEN Append(w, TimestampOf(R.file)) ELSE w

NoResponse == [kind |-> "none", data |-> <<>>]

\* no fetch call was made
NoCall == [name |-> "none", cooldown |-> 0, useSnapshot |-> FALSE,
           resp |-> NoResponse, before |-> NoFile, at |-> 0, wrote |-> FALSE]

\* a selection at a prompt: the option, the text typed at Input.prompt,
\* what the filter of the option was given and returned, whether it threw
Selection(choice, query, input, result, threw) ==
    [choice |-> choice, query |-> query, input |-> input, result |-> result,
     threw |-> threw]

\* nothing was selected: the program starts, or mainMenu awaits its prompt
NoChoice == Selection("none", <<>>, <<>>, <<>>, FALSE)

\* an option that filters nothing
Chose(choice) == Selection(choice, <<>>, <<>>, <<>>, FALSE)

\* an option whose filter was given `input` and returned `result`
Applied(choice, query, input, result) == Selection(choice, query, input, result, FALSE)

\* an option whose filter call threw
Threw(choice, query) == Selection(choice, query, <<>>, <<>>, TRUE)

\* the clock after a call: one that writes the snapshot took d1 up to the
\* clock reading of saveSnapshot and d2 from there to its return; one that
\* does not write is taken to return within the same millisecond
ClockAfter(R, d1, d2) ==
    IF R.wrote THEN now + d1 + d2 ELSE now

\* what a fetch call with result R leaves behind
Effects(R, name, cooldown, useSnapshot, resp, d1, d2) ==
    /\ file' = R.file
    /\ ret' = R.ret
    /\ net' = R.net
    /\ writes' = Logged(writes, R)
    /\ now' = ClockAfter(R, d1, d2)
    /\ call' = [name |-> name, cooldown |-> cooldown, useSnapshot |-> useSnapshot,
                resp |-> IF R.net > 0 \/ R.wrote THEN resp ELSE NoResponse,
                before |-> file, at |-> now, wrote |-> R.wrote]

Init ==
    /\ variant \in {"main.ts", "README.md"}
    /\ hasToken \in BOOLEAN
    /\ pc = "boot"
    /\ status = "running"
    /\ file \in InitFiles
    /\ now = 0
    /\ held = NoVal
    /\ listed = <<>>
    /\ out = <<>>
    /\ net = 0
    /\ ret = NoRet
    /\ writes = <<>>
    /\ call = NoCall
    /\ shown = 0
    /\ chosen = NoChoice

\* process exit: code 0 (main returns), code 1 (Deno.exit(1)), or an
\* uncaught exception
Terminate(how) ==
    /\ pc' = "done"
    /\ status' = how

\* Boot without the API_TOKEN check
BootNoCheck ==
    /\ pc = "boot"
    /\ pc' = "mainMenu"
    /\ out' = <<>>
    /\ net' = 0
    /\ ret' = NoRet
    /\ call' = NoCall
    /\ shown' = 0
    /\ UNCHANGED <<variant, hasToken, status, file, now, held, listed, writes, chosen>>

\* if (!API_TOKEN) { console.error(...); Deno.exit(1); }  then main()
Boot ==
    /\ pc = "boot"
    /\ IF hasToken
       THEN /\ pc' = "mainMenu"
            /\ out' = <<>>
            /\ UNCHANGED status
       ELSE /\ Terminate("exit1")
            /\ out' = <<"API token is missing!">>
    /\ net' = 0
    /\ ret' = NoRet
    /\ call' = NoCall
    /\ shown' = 0
    /\ UNCHANGED <<variant, hasToken, file, now, held, listed, writes, chosen>>

\* !response || !response.data || response.data.length === 0   (README.md)
\* !matches || matches.length === 0                            (main.ts)
NoMatchesFound(v, r) ==
    \/ r.kind = "null"
    \/ /\ v = "README.md"
       /\ (~r.val.hasData \/ Len(r.val.data) = 0)
    \/ /\ v = "main.ts"
       /\ r.val.type = "array"
       /\ Len(r.val.items) = 0

\* mainMenu, up to its Select.prompt
MainMenu(resp, d1, d2) ==
    /\ pc = "mainMenu"
    /\ now + d1 + d2 <= MaxNow
    /\ LET R == fetchEsportsData(variant, file, TRUE, resp, now + d1, now + d1 + d2)
       IN  /\ Effects(R, "fetchEsportsData", 0, TRUE, resp, d1, d2)
           /\ IF R.ret.kind = "throw"
              THEN /\ Terminate("crash")
                   /\ out' = R.out
                   /\ UNCHANGED held
              ELSE IF NoMatchesFound(variant, R.ret)
              THEN /\ Terminate("exit0")
                   /\ out' = Append(R.out, "No matches found.")
                   /\ UNCHANGED held
              ELSE /\ pc' = "action"
                   /\ held' = R.ret.val
                   /\ out' = IF variant = "README.md"
                             THEN Append(R.out, "Last Fetch") ELSE R.out
                   /\ UNCHANGED status
    /\ shown' = 0
    /\ chosen' = NoChoice
    /\ UNCHANGED <<variant, hasToken, listed>>

\* the switch of mainMenu works on what an earlier "View Live Matches" left
MatchesOfLiveOnly(v, h) ==
    IF v = "README.md" THEN filterLiveMatches(h.data) ELSE filterLiveMatches(h.items)

\* the `matches` the switch of mainMenu works on
MatchesOf(v, h) == IF v = "README.md" THEN h.data ELSE h.items

\* matches.filter / matches.map exist: in main.ts `matches` is whatever
\* JSON.parse gave
IsMatchArray(v, h) == v = "README.md" \/ h.type = "array"

\* case "Fetch New Data" (README.md): fetchIfNeeded, a message, mainMenu again
ActFetchNewData(resp, d1, d2) ==
    /\ pc = "action"
    /\ variant = "README.md"
    /\ now + d1 + d2 <= MaxNow
    /\ LET R == fetchIfNeeded(file, CooldownMinutes, resp, now, now + d1, now + d1 + d2)
       IN  /\ Effects(R, "fetchIfNeeded", CooldownMinutes, FALSE, resp, d1, d2)
           /\ IF R.ret.kind = "throw"
              THEN /\ Terminate("crash")
                   /\ out' = <<"Checking if data fetch is needed...">> \o R.out
              ELSE /\ pc' = "mainMenu"
                   /\ out' = <<"Checking if data fetch is needed...">> \o R.out
                             \o (IF R.ret.kind = "value"
                                 THEN <<"New data fetched and snapshot updated.">>
                                 ELSE <<"Cooldown active. Data fetch skipped.">>)
                   /\ UNCHANGED status
    /\ shown' = 0
    /\ chosen' = Chose("Fetch New Data")
    /\ UNCHANGED <<variant, hasToken, held, listed>>

\* ShowResult that calls matchListMenu on an empty result too
ShowResultAlways(result, message) ==
    /\ pc' = "list"
    /\ listed' = result
    /\ out' = <<>>
    /\ UNCHANGED status

\* a filter's result: matchListMenu on a non-empty one, a message and
\* mainMenu again on an empty one
ShowResult(result, message) ==
    /\ IF Len(result) > 0
       THEN /\ pc' = "list"
            /\ listed' = result
            /\ out' = <<>>
       ELSE /\ pc' = "mainMenu"
            /\ out' = <<message>>
            /\ UNCHANGED listed
    /\ UNCHANGED status

\* a step of the switch that makes no fetch
NoFetch ==
    /\ net' = 0
    /\ ret' = NoRet
    /\ call' = NoCall
    /\ shown' = 0
    /\ UNCHANGED <<variant, hasToken, file, now, held, writes>>

\* TypeError: matches.filter / matches.map is not a function
TypeError ==
    /\ Terminate("crash")
    /\ out' = <<>>
    /\ UNCHANGED listed

\* case "Filter by Game"
ActFilterByGame(game) ==
    /\ pc = "action"
    /\ IF IsMatchArray(variant, held)
       THEN /\ ShowResult(filterByGame(MatchesOf(variant, held), game), "No matches found for game")
            /\ chosen' = Applied("Filter by Game", game, MatchesOf(variant, held),
                                 filterByGame(MatchesOf(variant, held), game))
       ELSE /\ TypeError
            /\ chosen' = Threw("Filter by Game", game)
    /\ NoFetch

\* case "Filter by League" (README.md)
ActFilterByLeague(league) ==
    /\ pc = "action"
    /\ variant = "README.md"
    /\ ShowResult(filterByLeague(MatchesOf(variant, held), league), "No matches found for league")
    /\ chosen' = Applied("Filter by League", league, MatchesOf(variant, held),
                         filterByLeague(MatchesOf(variant, held), league))
    /\ NoFetch

\* case "Search Matches" (README.md)
ActSearchMatches(query) ==
    /\ pc = "action"
    /\ variant = "README.md"
    /\ ShowResult(searchMatches(MatchesOf(variant, held), query), "No matches found for query")
    /\ chosen' = Applied("Search Matches", query, MatchesOf(variant, held),
                         searchMatches(MatchesOf(variant, held), query))
    /\ NoFetch

\* case "View Live Matches" (README.md)
ActViewLiveMatches ==
    /\ pc = "action"
    /\ variant = "README.md"
    /\ ShowResult(filterLiveMatches(MatchesOf(variant, held)), "No live matches currently available.")
    /\ chosen' = Applied("View Live Matches", <<>>, MatchesOf(variant, held),
                         filterLiveMatches(MatchesOf(variant, held)))
    /\ NoFetch

\* case "View All Matches": matchListMenu(matches), whatever its length
ActViewAllMatches ==
    /\ pc = "action"
    /\ IF IsMatchArray(variant, held)
       THEN /\ pc' = "list"
            /\ listed' = MatchesOf(variant, held)
            /\ out' = <<>>
            /\ chosen' = Applied("View All Matches", <<>>, MatchesOf(variant, held),
                                 MatchesOf(variant, held))
            /\ UNCHANGED status
       ELSE /\ TypeError
            /\ chosen' = Threw("View All Matches", <<>>)
    /\ NoFetch

\* case "Exit"
ActExit ==
    /\ pc = "action"
    /\ Terminate("exit0")
    /\ out' = <<"Goodbye!">>
    /\ chosen' = Chose("Exit")
    /\ UNCHANGED listed
    /\ NoFetch

\* "Go Back" that falls through to displayMatchDetails
GoBackDisplays ==
    /\ pc = "list"
    /\ pc' = "mainMenu"
    /\ shown' = listed[1].id
    /\ out' = <<"Match details">>
    /\ listed' = <<>>
    /\ net' = 0
    /\ ret' = NoRet
    /\ call' = NoCall
    /\ chosen' = Chose("Go Back")
    /\ UNCHANGED <<variant, hasToken, status, file, now, held, writes>>

\* matchListMenu: "Go Back"
GoBack ==
    /\ pc = "list"
    /\ pc' = "mainMenu"
    /\ out' = <<>>
    /\ listed' = <<>>
    /\ chosen' = Chose("Go Back")
    /\ UNCHANGED status
    /\ NoFetch

\* matches.find((match) => match.id.toString() === selectedId)
find(matches, id) ==
    matches[CHOOSE i \in 1..Len(matches) :
                /\ matches[i].id = id
                /\ \A j \in 1..(i - 1) : matches[j].id # id]

\* matchListMenu: the i-th option is selected; displayMatchDetails
SelectMatch(i) ==
    /\ pc = "list"
    /\ pc' = "mainMenu"
    /\ shown' = find(listed, listed[i].id).id
    /\ out' = <<"Match details">>
    /\ listed' = <<>>
    /\ net' = 0
    /\ ret' = NoRet
    /\ call' = NoCall
    /\ chosen' = Chose("match")
    /\ UNCHANGED <<variant, hasToken, status, file, now, held, writes>>

\* time passes before the program starts or while a prompt waits
Tick(d) ==
    /\ pc \in {"boot", "action", "list"}
    /\ now + d <= MaxNow
    /\ now' = now + d
    /\ UNCHANGED <<variant, hasToken, pc, status, file, held, listed, out, net, ret,
                   writes, call, shown, chosen>>

Next ==
    \/ Boot
    \/ \E resp \in Responses, d1, d2 \in Delays : MainMenu(resp, d1, d2)
    \/ \E resp \in Responses, d1, d2 \in Delays : ActFetchNewData(resp, d1, d2)
    \/ \E game \in Queries : ActFilterByGame(game)
    \/ \E league \in Queries : ActFilterByLeague(league)
    \/ \E query \in Queries : ActSearchMatches(query)
    \/ ActViewLiveMatches
    \/ ActViewAllMatches
    \/ ActExit
    \/ GoBack
    \/ \E i \in 1..Len(listed) : SelectMatch(i)
    \/ \E d \in TickSteps : Tick(d)

Spec == Init /\ [][Next]_vars

----------------------------------------------------------------------------------------------------------------------------------------
(* The functions called directly, on any snapshot file, at any elapsed     *)
(* time and with any cooldown, and the snapshot then read back: the        *)
(* specification the contracts of fetchIfNeeded, fetchEsportsData and      *)
(* saveSnapshot are checked under.                                         *)

\* the cooldownMinutes a caller may pass
Cooldowns == {0, 1, CooldownMinutes, 2 * CooldownMinutes}

\* the clock when the call is made (the files of InitFiles are of time 0)
ApiClock ==
    {0, 1} \cup TickSteps
    \cup {2 * CooldownMinutes * MsPerMinute - 1, 2 * CooldownMinutes * MsPerMinute}

InitApi ==
    /\ variant \in {"main.ts", "README.md"}
    /\ hasToken = TRUE
    /\ pc = "api"
    /\ status = "running"
    /\ file \in InitFiles
    /\ now \in ApiClock
    /\ held = NoVal
    /\ listed = <<>>
    /\ out = <<>>
    /\ net = 0
    /\ ret = NoRet
    /\ writes = <<>>
    /\ call = NoCall
    /\ shown = 0
    /\ chosen = NoChoice

CallFetchIfNeeded(cooldownMinutes, resp, d1, d2) ==
    /\ pc = "api"
    /\ variant = "README.md"
    /\ pc' = "written"
    /\ LET R == fetchIfNeeded(file, cooldownMinutes, resp, now, now + d1, now + d1 + d2)
       IN  /\ Effects(R, "fetchIfNeeded", cooldownMinutes, FALSE, resp, d1, d2)
           /\ out' = R.out
    /\ UNCHANGED <<variant, hasToken, status, held, listed, shown, chosen>>

CallFetchEsportsData(useSnapshot, resp, d1, d2) ==
    /\ pc = "api"
    /\ pc' = "written"
    /\ LET R == fetchEsportsData(variant, file, useSnapshot, resp, now + d1, now + d1 + d2)
       IN  /\ Effects(R, "fetchEsportsData", 0, useSnapshot, resp, d1, d2)
           /\ out' = R.out
    /\ UNCHANGED <<variant, hasToken, status, held, listed, shown, chosen>>

\* saveSnapshot(data, snapshotFile), its clock reading d1 after the call
CallSaveSnapshot(data, d1) ==
    /\ pc = "api"
    /\ pc' = "written"
    /\ LET R == Result(FileOf(saveSnapshot(variant, data, now + d1)), NoRet, 0,
                       <<"Snapshot saved">>, TRUE)
       IN  /\ Effects(R, "saveSnapshot", 0, FALSE, [kind |-> "ok", data |-> data], d1, 0)
           /\ out' = R.out
    /\ UNCHANGED <<variant, hasToken, status, held, listed, shown, chosen>>

\* the snapshot read back: fetchEsportsData(endpoint, true) on the file the
\* call before left; `call` stays that of the call before
ReadBack(resp, d1, d2) ==
    /\ pc = "written"
    /\ file.exists
    /\ pc' = "read"
    /\ LET R == fetchEsportsData(variant, file, TRUE, resp, now + d1, now + d1 + d2)
       IN  /\ ret' = R.ret
           /\ net' = R.net
           /\ out' = R.out
    /\ UNCHANGED <<variant, hasToken, status, file, now, held, listed, writes, call, shown, chosen>>

NextApi ==
    \/ \E cd \in Cooldowns, resp \in Responses, d1, d2 \in Delays :
          CallFetchIfNeeded(cd, resp, d1, d2)
    \/ \E us \in BOOLEAN, resp \in Responses, d1, d2 \in Delays :
          CallFetchEsportsData(us, resp, d1, d2)
    \/ \E data \in Payloads, d1 \in Delays : CallSaveSnapshot(data, d1)
    \/ \E resp \in Responses, d1, d2 \in Delays : ReadBack(resp, d1, d2)

SpecApi == InitApi /\ [][NextApi]_vars

----------------------------------------------------------------------------
(* The filters called directly, on any match sequence of up to MaxLen      *)
(* matches and any text: the specification the contracts of filterByGame,  *)
(* filterByLeague, filterLiveMatches and searchMatches are checked under.  *)

\* the match sequences a filter may be given
MatchSeqs == UNION {[1..n -> MatchPool] : n \in 0..MaxLen}

InitFilter ==
    /\ variant \in {"main.ts", "README.md"}
    /\ hasToken = TRUE
    /\ pc = "filter"
    /\ status = "running"
    /\ file = NoFile
    /\ now = 0
    /\ \E matches \in MatchSeqs :
          held = IF variant = "README.md"
                 THEN Envelope(toISOString(0), matches) ELSE Arr(matches)
    /\ listed = <<>>
    /\ out = <<>>
    /\ net = 0
    /\ ret = NoRet
    /\ writes = <<>>
    /\ call = NoCall
    /\ shown = 0
    /\ chosen = NoChoice

\* a filter was called on the matches held and returned `result`
Filtered(name, query, result) ==
    /\ pc = "filter"
    /\ pc' = "filtered"
    /\ chosen' = Applied(name, query, MatchesOf(variant, held), result)
    /\ UNCHANGED <<variant, hasToken, status, file, now, held, listed, out, net, ret,
                   writes, call, shown>>

CallFilterByGame(game) ==
    Filtered("filterByGame", game, filterByGame(MatchesOf(variant, held), game))

CallFilterByLeague(league) ==
    /\ variant = "README.md"
    /\ Filtered("filterByLeague", league, filterByLeague(MatchesOf(variant, held), league))

CallFilterLiveMatches ==
    /\ variant = "README.md"
    /\ Filtered("filterLiveMatches", <<>>, filterLiveMatches(MatchesOf(variant, held)))

CallSearchMatches(query) ==
    /\ variant = "README.md"
    /\ Filtered("searchMatches", query, searchMatches(MatchesOf(variant, held), query))

NextFilter ==
    \/ \E game \in Queries : CallFilterByGame(game)
    \/ \E league \in Queries : CallFilterByLeague(league)
    \/ CallFilterLiveMatches
    \/ \E query \in Queries : CallSearchMatches(query)

SpecFilter == InitFilter /\ [][NextFilter]_vars

----------------------------------------------------------------------------
(* What the claims speak of *)

\* the file holds a snapshot: an object with a timestamp and a data array
IsSnapshot(f) ==
    /\ f.exists
    /\ JSONparse(f.text).ok
    /\ JSONparse(f.text).val.type = "object"
    /\ ~isNaNDate(JSONparse(f.text).val.lastFetched)
    /\ JSONparse(f.text).val.hasData

\* the payload a snapshot file stores
DataOf(f) == JSONparse(f.text).val.data

\* the time from the fetch a snapshot file records to the instant t
Elapsed(f, t) == t - getTime(TimestampOf(f))

\* the remote was called and did not answer with a usable payload
FetchFailed == net > 0 /\ call.resp.kind \in {"http_error", "network_error", "bad_body"}

\* the last step was a call of fetchIfNeeded
CalledFetchIfNeeded == pc # "read" /\ call.name = "fetchIfNeeded"

(* C1: cache hit.  A fetchIfNeeded call with a cooldown d > 0 on a snapshot *)
(* whose elapsed time is below d returns the stored snapshot (its timestamp *)
(* and its payload), makes no network call and leaves the file as it was.   *)
C1_CacheHit ==
    ( /\ CalledFetchIfNeeded
      /\ call.cooldown > 0
      /\ IsSnapshot(call.before)
      /\ Elapsed(call.before, call.at) < call.cooldown * MsPerMinute )
    => /\ net = 0
       /\ file = call.before
       /\ ret.kind = "value"
       /\ ret.val.lastFetched = TimestampOf(call.before)
       /\ ret.val.hasData
       /\ ret.val.data = DataOf(call.before)

\* a hit one millisecond before the cooldown of 20 minutes ends
C1_Witness ==
    /\ CalledFetchIfNeeded
    /\ call.cooldown = 2 * CooldownMinutes
    /\ IsSnapshot(call.before)
    /\ Elapsed(call.before, call.at) = call.cooldown * MsPerMinute - 1
    /\ DataOf(call.before) = <<M1, M2>>
    /\ net = 0
    /\ ret.kind = "value"

(* C2: refetch.  A fetchIfNeeded call on no snapshot (any cooldown), or on a *)
(* snapshot whose elapsed time is at least the cooldown (every call with    *)
(* cooldown 0 among them), makes exactly one network call, and when that    *)
(* call succeeds the file then holds the fetched payload.                   *)
C2_Refetch ==
    ( /\ CalledFetchIfNeeded
      /\ \/ ~call.before.exists
         \/ /\ IsSnapshot(call.before)
            /\ Elapsed(call.before, call.at) >= call.cooldown * MsPerMinute )
    => /\ net = 1
       /\ call.resp.kind = "ok" =>
            /\ call.wrote
            /\ IsSnapshot(file)
            /\ DataOf(file) = call.resp.data

\* cooldown 0 on a snapshot fetched in this very millisecond: refetched, and
\* the file now holds another payload
C2_Witness ==
    /\ CalledFetchIfNeeded
    /\ call.cooldown = 0
    /\ IsSnapshot(call.before)
    /\ Elapsed(call.before, call.at) = 0
    /\ net = 1
    /\ call.resp.kind = "ok"
    /\ DataOf(file) = <<M3>>
    /\ DataOf(call.before) = <<M1, M2>>

(* C3: a failed remote call (non-2xx status, network error) writes no       *)
(* snapshot: the caller gets null or an exception, and the snapshot file is *)
(* the one the call found, whatever state the call began in.                *)
C3_FailedFetchWritesNothing ==
    (pc # "read" /\ FetchFailed)
    => /\ file = call.before
       /\ ~call.wrote
       /\ ret.kind \in {"null", "throw"}
       /\ net = 1

\* a non-2xx answer to a refetch of a stale snapshot
C3_Witness ==
    /\ CalledFetchIfNeeded
    /\ FetchFailed
    /\ call.resp.kind = "http_error"
    /\ IsSnapshot(call.before)
    /\ Elapsed(call.before, call.at) >= call.cooldown * MsPerMinute
    /\ file = call.before
    /\ ret.kind = "null"

(* C4: a failed fetch (non-2xx answer or transport failure) neither crashes *)
(* nor ends the process: it is reported once, not retried, the snapshot     *)
(* stays as it was and the session is back at the main menu, in every       *)
(* session state, the first run without a snapshot included.                *)
C4_FetchFailureKeepsSession ==
    (FetchFailed /\ call.resp.kind \in {"http_error", "network_error"})
    => /\ status = "running"
       /\ pc = "mainMenu"
       /\ net = 1
       /\ file = call.before
       /\ Len(SelectSeq(out, LAMBDA m : m = "Error: status")) = 1

(* C5 as stated: whenever mainMenu loads the match data and the snapshot is *)
(* absent or stale (elapsed >= cooldown), the remote is asked, and a new    *)
(* snapshot is written before the action menu is offered.                   *)
C5_StaleOrAbsentRefetched ==
    ( /\ call.name = "fetchEsportsData"
      /\ \/ ~call.before.exists
         \/ /\ IsSnapshot(call.before)
            /\ Elapsed(call.before, call.at) >= CooldownMinutes * MsPerMinute )
    => /\ net = 1
       /\ pc = "action" => call.wrote

(* C5 as amended: when mainMenu loads the match data, the remote is asked   *)
(* exactly when the snapshot file is absent, and then the action menu is    *)
(* offered only after a snapshot of the fetched payload was written; an     *)
(* existing snapshot is served as it is, whatever its age, with no network  *)
(* call and no write (a stale one is refetched only by "Fetch New Data").   *)
C5_LoadFetchesOnlyWhenAbsent ==
    /\ call.name = "fetchEsportsData" =>
         /\ call.before.exists => (net = 0 /\ file = call.before /\ ~call.wrote)
         /\ ~call.before.exists => net = 1
         /\ (~call.before.exists /\ pc = "action") =>
              /\ call.wrote
              /\ call.resp.kind = "ok"
              /\ MatchesOf(variant, held) = call.resp.data
              /\ JSONparse(file.text).ok
              /\ MatchesOf(variant, FromSnapshot(variant, JSONparse(file.text).val))
                   = call.resp.data
    /\ (net > 0 /\ call.before.exists) => call.name = "fetchIfNeeded"

\* a snapshot older than the cooldown is served: the action menu is offered
\* with no network call made
C5_Witness ==
    /\ pc = "action"
    /\ variant = "README.md"
    /\ call.name = "fetchEsportsData"
    /\ IsSnapshot(call.before)
    /\ Elapsed(call.before, call.at) >= CooldownMinutes * MsPerMinute
    /\ net = 0
    /\ held.data = DataOf(call.before)

(* C6: the timestamps recorded by the successive successful writes of the   *)
(* snapshot file strictly increase from each write to the next.             *)
C6_TimestampsIncrease ==
    \A i \in 1..(Len(writes) - 1) :
        /\ ~isNaNDate(writes[i])
        /\ ~isNaNDate(writes[i + 1])
        /\ getTime(writes[i]) < getTime(writes[i + 1])

\* three writes, the second exactly one cooldown after the first
C6_Witness ==
    /\ Len(writes) = 3
    /\ getTime(writes[2]) - getTime(writes[1]) = CooldownMinutes * MsPerMinute

\* the payload of a value read from a snapshot
PayloadRead(val) == IF val.type = "array" THEN val.items ELSE val.data

(* C7: round trip.  A snapshot written and then read back yields the        *)
(* payload that was written and a timestamp no earlier than the moment the  *)
(* write call started.                                                      *)
C7_RoundTrip ==
    (pc = "read" /\ call.wrote)
    => /\ ret.kind = "value"
       /\ PayloadRead(ret.val) = call.resp.data
       /\ ~isNaNDate(ret.val.lastFetched)
       /\ getTime(ret.val.lastFetched) >= call.at

(* C8: every snapshot file the program writes is an object with exactly the *)
(* two top-level fields lastFetched (a timestamp string) and data, and data *)
(* is the payload of the response that caused the write.                    *)
C8_SnapshotFileIsEnvelope ==
    call.wrote
    => /\ Len(file.text) >= 4
       /\ ~isNaNDate(file.text[3].iso)
       /\ file.text = <<LBrace, KeyTok("lastFetched"), StrTok(file.text[3].iso),
                        KeyTok("data")>>
                      \o ArrayText(call.resp.data) \o <<RBrace>>

(* C9: reading a snapshot file that exists but is not a {lastFetched, data} *)
(* envelope (invalid JSON, or JSON without those fields) fails with a parse *)
(* error: no network call, no value returned.                               *)
C9_MalformedSnapshotIsParseError ==
    ( /\ variant = "README.md"
      /\ pc # "read"
      /\ call.name = "fetchIfNeeded" \/ (call.name = "fetchEsportsData" /\ call.useSnapshot)
      /\ call.before.exists
      /\ ~IsSnapshot(call.before) )
    => /\ ret.kind = "throw"
       /\ net = 0
       /\ file = call.before

(* C10: without API_TOKEN the process exits with status 1 at the check made *)
(* once at start: no menu is shown, no network call is made and no snapshot *)
(* file is read or written; and only a missing token exits with status 1.   *)
C10_NoTokenExitsBeforeSession ==
    /\ ~hasToken =>
         /\ pc \in {"boot", "done"}
         /\ pc = "boot" => (status = "running" /\ ENABLED Boot)
         /\ pc = "done" => status = "exit1"
         /\ net = 0
         /\ call = NoCall
         /\ writes = <<>>
         /\ held = NoVal
         /\ listed = <<>>
    /\ status = "exit1" => ~hasToken

\* the exit with status 1, a snapshot file lying there untouched
C10_Witness ==
    /\ ~hasToken
    /\ pc = "done"
    /\ status = "exit1"
    /\ IsSnapshot(file)
    /\ out = <<"API token is missing!">>

\* two characters are the same letter, whatever their case
SameLetter(a, b) == a = b \/ {a, b} \in {{"C", "c"}, {"S", "s"}, {"L", "l"}}

\* two strings are equal, ignoring case
EqualIgnoringCase(s, t) ==
    /\ Len(s) = Len(t)
    /\ \A i \in 1..Len(s) : SameLetter(s[i], t[i])

\* q occurs in s as a contiguous substring, ignoring case
ContainsIgnoringCase(s, q) ==
    \E k \in 0..(Len(s) - Len(q)) : \A j \in 1..Len(q) : SameLetter(s[k + j], q[j])

\* result is input restricted to the positions in I, in input order
IsSelection(input, result, I) ==
    /\ Len(result) = Cardinality(I)
    /\ \E f \in [1..Len(result) -> I] :
          /\ \A j, k \in 1..Len(result) : j < k => f[j] < f[k]
          /\ \A k \in 1..Len(result) : result[k] = input[f[k]]

\* the filter `name` has just been called directly
Called(name) == pc = "filtered" /\ chosen.choice = name

(* C11: filterByGame returns exactly the matches whose game name equals the *)
(* given name ignoring case (equality, not containment), in their original  *)
(* order, and the sequence it was given is afterwards what it was.          *)
C11_FilterByGameExact ==
    Called("filterByGame") =>
        /\ IsSelection(chosen.input, chosen.result,
                       {i \in 1..Len(chosen.input) :
                            EqualIgnoringCase(chosen.input[i].game, chosen.query)})
        /\ MatchesOf(variant, held) = chosen.input

\* "cs" asked of games cs2, CS, cs: the second and the third are returned
C11_Witness ==
    /\ Called("filterByGame")
    /\ chosen.query = <<"c", "s">>
    /\ chosen.input = <<M3, M1, M2>>
    /\ chosen.result = <<M1, M2>>

(* C12: searchMatches returns the matches whose name contains the query as *)
(* a substring ignoring case, and filterByLeague does the same test on the *)
(* league name; each keeps the original order and leaves the sequence it   *)
(* was given as it was.                                                    *)
C12_SubstringFilters ==
    /\ Called("searchMatches") =>
          /\ IsSelection(chosen.input, chosen.result,
                         {i \in 1..Len(chosen.input) :
                              ContainsIgnoringCase(chosen.input[i].name, chosen.query)})
          /\ MatchesOf(variant, held) = chosen.input
    /\ Called("filterByLeague") =>
          /\ IsSelection(chosen.input, chosen.result,
                         {i \in 1..Len(chosen.input) :
                              ContainsIgnoringCase(chosen.input[i].league, chosen.query)})
          /\ MatchesOf(variant, held) = chosen.input

\* "lC" asked of leagues l, aLC, Lc: the second (inside the name) and the
\* third are returned
C12_Witness ==
    /\ Called("filterByLeague")
    /\ chosen.query = <<"l", "C">>
    /\ chosen.input = <<M2, M3, M1>>
    /\ chosen.result = <<M3, M1>>

Cached(v, f) == IF v = "README.md" THEN DataOf(f) ELSE JSONparse(f.text).val.items

\* the options of the main menu that filter
FilterOptions == {"Filter by Game", "Filter by League", "Search Matches",
                  "View Live Matches"}

\* the last step handled a filter option and its filter returned
FilterApplied == chosen.choice \in FilterOptions /\ ~chosen.threw

(* C14: filters do not compose across menu selections.  Whatever was       *)
(* selected before, the filter of a main-menu option is given the complete *)
(* match sequence the current snapshot file caches, never what an earlier  *)
(* filter returned.                                                        *)
C14_FiltersDoNotCompose ==
    FilterApplied => chosen.input = Cached(variant, file)

\* "View Live Matches" narrows the three cached matches to one, and was
\* given all three
C14_Witness ==
    /\ chosen.choice = "View Live Matches"
    /\ pc = "list"
    /\ Cached(variant, file) = <<M2, M3, M1>>
    /\ chosen.input = <<M2, M3, M1>>
    /\ listed = <<M1>>

(* C15: "Go Back" in the match-selection menu returns to the main menu with *)
(* no side effect: no network call, the snapshot file as it was, no match   *)
(* details displayed; and the main menu that follows makes no network call  *)
(* either and offers the match sequence that was cached before.             *)
C15_GoBackNoSideEffects ==
    [][ /\ (pc = "list" /\ chosen'.choice = "Go Back") =>
              /\ pc' = "mainMenu"
              /\ status' = "running"
              /\ net' = 0
              /\ file' = file
              /\ writes' = writes
              /\ shown' = 0
              /\ out' = <<>>
              /\ held' = held
        /\ (pc = "mainMenu" /\ chosen.choice = "Go Back" /\ pc' # pc) =>
              /\ pc' = "action"
              /\ net' = 0
              /\ file' = file
              /\ MatchesOf(variant, held') = MatchesOf(variant, held)
      ]_vars

\* back from a list of two matches of the snapshot this session fetched
C15_Witness ==
    /\ pc = "mainMenu"
    /\ chosen.choice = "Go Back"
    /\ Len(writes) = 1
    /\ MatchesOf(variant, held) = <<M1, M2>>

(* C16: an empty filter result is a normal outcome.  The match-selection   *)
(* menu is not shown, one message is printed, no network call is made, the *)
(* snapshot file stays as it was, and the main menu is presented again.    *)
C16_EmptyResultReturnsToMenu ==
    [][ /\ (pc = "action" /\ FilterApplied' /\ chosen'.result = <<>>) =>
              /\ pc' = "mainMenu"
              /\ status' = "running"
              /\ listed' = <<>>
              /\ Len(out') = 1
              /\ out'[1] \in {"No matches found for game", "No matches found for league",
                              "No matches found for query",
                              "No live matches currently available."}
              /\ net' = 0
              /\ file' = file
              /\ writes' = writes
        /\ (pc = "mainMenu" /\ FilterApplied /\ chosen.result = <<>> /\ pc' # pc) =>
              /\ pc' = "action"
              /\ file' = file
              /\ MatchesOf(variant, held') = MatchesOf(variant, held)
      ]_vars

\* a search for "x", which no name contains
C16_Witness ==
    /\ pc = "mainMenu"
    /\ chosen.choice = "Search Matches"
    /\ chosen.query = <<"x">>
    /\ chosen.input = <<M2, M3, M1>>
    /\ chosen.result = <<>>
    /\ out = <<"No matches found for query">>

\* the message m is among those the last step printed
Printed(m) == \E i \in 1..Len(out) : out[i] = m

\* the load of mainMenu came back with a match list that is empty
LoadedEmpty ==
    /\ call.name = "fetchEsportsData"
    /\ ret.kind = "value"
    /\ \/ ret.val.type = "array" /\ ret.val.items = <<>>
       \/ ret.val.type = "object" /\ ret.val.hasData /\ ret.val.data = <<>>

(* C17: an empty match list, read from the snapshot or just fetched, is not *)
(* an error and does not end the session: the user is told, and the action  *)
(* menu (with "Fetch New Data") is still offered.                           *)
C17_EmptyListKeepsSession ==
    LoadedEmpty =>
        /\ status = "running"
        /\ pc = "action"
        /\ Len(out) > 0

\* the main menu has been shown in this run
MenuWasShown == held # NoVal

(* C18: once the main menu has been shown, the session ends only when the  *)
(* user selects "Exit": after every other action, whatever its outcome, the *)
(* main menu is presented again.                                           *)
C18_OnlyExitEndsSession ==
    (MenuWasShown /\ pc = "done") => (chosen.choice = "Exit" /\ status = "exit0")

(* C19: in "Fetch New Data", "New data fetched and snapshot updated." is    *)
(* printed only if a network call succeeded and the snapshot file was       *)
(* overwritten during the action, and "Cooldown active. Data fetch          *)
(* skipped." only if the cooldown was in effect and no network call was     *)
(* made.                                                                    *)
C19_FetchNewDataMessages ==
    chosen.choice = "Fetch New Data" =>
        /\ Printed("New data fetched and snapshot updated.") =>
              /\ net = 1
              /\ call.resp.kind = "ok"
              /\ call.wrote
        /\ Printed("Cooldown active. Data fetch skipped.") =>
              /\ net = 0
              /\ IsSnapshot(call.before)
              /\ Elapsed(call.before, call.at) < CooldownMinutes * MsPerMinute

(* C20: after a successful refetch the value fetchEsportsData / fetchIfNeeded *)
(* returns is the snapshot just persisted: its timestamp and its payload are  *)
(* those the file holds.                                                      *)
C20_ReturnedIsPersisted ==
    ( /\ pc = "written"
      /\ call.name \in {"fetchEsportsData", "fetchIfNeeded"}
      /\ call.wrote
      /\ ret.kind = "value" )
    => /\ JSONparse(file.text).ok
       /\ ret.val.lastFetched = TimestampOf(file)
       /\ PayloadRead(ret.val) = PayloadRead(JSONparse(file.text).val)

====
